---- MODULE Spec2Model ----
(***************************************************************************)
(* Model of tools/llm_api.py: create_llm_client, query_llm and the CLI     *)
(* entry point main, together with the ledger of tools/token_tracker that  *)
(* query_llm feeds.  One action is one whole call of query_llm or main.    *)
(*                                                                         *)
(* Conventions.  A Python Optional is a sequence of length at most one:    *)
(* None is <<>> and a value v is <<v>>.  A model name is a sequence of     *)
(* one-character strings, so that model.lower().startswith("o") is         *)
(* computed and not assumed.  A step that can raise returns a record       *)
(* [raised, value].  Money is counted in integer price units.              *)
(* Calls are explored with image_path at its default None, so the request  *)
(* is built from the prompt alone (lines 165-171, 226-232).                *)
(***************************************************************************)
EXTENDS Integers, Sequences, FiniteSets, TLC

\* ------------------------------------------------------------------ bounds
\* Number of query_llm / main invocations explored in one process lifetime.
MaxCalls == 2
\* Largest token count a provider reports in the explored responses.
MaxTokens == 1

\* ----------------------------------------------------------- Python values
None == <<>>
Some(v) == <<v>>

Returned(v) == [raised |-> FALSE, value |-> v]
Raised == [raised |-> TRUE, value |-> None]

\* ------------------------------------------------------------- model names
Str_gpt4o == <<"g","p","t","-","4","o">>
Str_gpt4oms == <<"g","p","t","-","4","o","-","m","s">>
Str_deepseek == <<"d","e","e","p","s","e","e","k","-","c","h","a","t">>
Str_claude == <<"c","l","a","u","d","e","-","3","-","5","-","s","o","n","n","e","t","-","2","0","2","4","1","0","2","2">>
Str_geminipro == <<"g","e","m","i","n","i","-","p","r","o">>
Str_geminiflash == <<"g","e","m","i","n","i","-","2",".","0","-","f","l","a","s","h","-","e","x","p">>
Str_qwen == <<"Q","w","e","n","/","Q","w","e","n","2",".","5","-","3","2","B","-","I","n","s","t","r","u","c","t","-","A","W","Q">>
Str_o1 == <<"o","1">>
Str_O3 == <<"O","3">>
Str_deploy == <<"g","p","t","-","4">>

\* str.lower() on the characters that occur in the explored model names.
LowerChar(c) ==
    CASE c = "O" -> "o"
      [] c = "Q" -> "q"
      [] c = "B" -> "b"
      [] c = "I" -> "i"
      [] c = "A" -> "a"
      [] c = "W" -> "w"
      [] OTHER -> c

Lower(s) == [i \in 1..Len(s) |-> LowerChar(s[i])]

\* str.startswith(prefix)
StartsWith(s, prefix) ==
    /\ Len(s) >= Len(prefix)
    /\ SubSeq(s, 1, Len(prefix)) = prefix

\* ------------------------------------------------------------- environment
EmptyEnv ==
    [OPENAI_API_KEY |-> None, AZURE_OPENAI_API_KEY |-> None,
     DEEPSEEK_API_KEY |-> None, ANTHROPIC_API_KEY |-> None,
     GOOGLE_API_KEY |-> None, AZURE_OPENAI_MODEL_DEPLOYMENT |-> None]

FullEnv ==
    [OPENAI_API_KEY |-> Some("k"), AZURE_OPENAI_API_KEY |-> Some("k"),
     DEEPSEEK_API_KEY |-> Some("k"), ANTHROPIC_API_KEY |-> Some("k"),
     GOOGLE_API_KEY |-> Some("k"), AZURE_OPENAI_MODEL_DEPLOYMENT |-> Some(Str_deploy)]

EnvChoices == {EmptyEnv, FullEnv}

\* `not api_key`: None and the empty string are both falsy.
Falsy(opt) == opt = None \/ opt[1] = ""

\* --------------------------------------------------------------- providers
OpenAIStyle == {"openai", "local", "deepseek", "azure"}
CliProviders == {"openai", "anthropic", "gemini", "local", "deepseek", "azure"}
Providers == CliProviders \cup {"foo"}

\* The credential create_llm_client reads for a provider (None: it reads none).
CredentialOf(provider, environ) ==
    CASE provider = "openai" -> Some(environ.OPENAI_API_KEY)
      [] provider = "azure" -> Some(environ.AZURE_OPENAI_API_KEY)
      [] provider = "deepseek" -> Some(environ.DEEPSEEK_API_KEY)
      [] provider = "anthropic" -> Some(environ.ANTHROPIC_API_KEY)
      [] provider = "gemini" -> Some(environ.GOOGLE_API_KEY)
      [] OTHER -> None

ClientClass(provider) ==
    CASE provider = "azure" -> "AzureOpenAI"
      [] provider = "anthropic" -> "Anthropic"
      [] provider = "gemini" -> "genai"
      [] OTHER -> "OpenAI"

\* create_llm_client with the check of the credential left out.
create_llm_client_Unchecked(provider, environ) ==
    IF provider \notin CliProviders THEN Raised
    ELSE Returned(ClientClass(provider))

\* create_llm_client: the client object, or ValueError.
create_llm_client(provider, environ) ==
    IF provider = "local" THEN Returned(ClientClass(provider))
    ELSE IF provider \notin CliProviders THEN Raised
    ELSE IF Falsy(CredentialOf(provider, environ)[1]) THEN Raised
    ELSE Returned(ClientClass(provider))

\* ------------------------------------------------- token_tracker (ledger)
\* TokenUsage(...): the usage record; negative counts are rejected at
\* construction.
TokenUsage(prompt_tokens, completion_tokens, total_tokens, reasoning_tokens) ==
    IF \/ prompt_tokens < 0
       \/ completion_tokens < 0
       \/ total_tokens < 0
       \/ (reasoning_tokens # None /\ reasoning_tokens[1] < 0)
    THEN Raised
    ELSE Returned([prompt_tokens |-> prompt_tokens,
                   completion_tokens |-> completion_tokens,
                   total_tokens |-> total_tokens,
                   reasoning_tokens |-> reasoning_tokens])

\* Pricing table: price units per token, (prompt, completion), with a
\* provider default rate for a model the table does not list.
OpenAIPrice(model) ==
    IF model = Str_o1 THEN <<15, 60>>
    ELSE IF model = Str_gpt4o THEN <<10, 30>>
    ELSE IF model = Str_deepseek THEN <<1, 2>>
    ELSE <<10, 30>>

ClaudePrice(model) == <<3, 15>>

calculate_openai_cost(prompt_tokens, completion_tokens, model) ==
    prompt_tokens * OpenAIPrice(model)[1] + completion_tokens * OpenAIPrice(model)[2]

calculate_claude_cost(prompt_tokens, completion_tokens, model) ==
    prompt_tokens * ClaudePrice(model)[1] + completion_tokens * ClaudePrice(model)[2]

\* APIResponse(...): the request record; a negative cost is rejected at
\* construction.
APIResponse(content, token_usage, cost, thinking_time, provider, model) ==
    IF cost < 0 THEN Raised
    ELSE Returned([content |-> content, token_usage |-> token_usage,
                   cost |-> cost, thinking_time |-> thinking_time,
                   provider |-> provider, model |-> model])

\* TokenTracker.track_request: append to the process-wide ledger.
track_request(records, api_response) == Append(records, api_response)

\* ------------------------------------------------------ provider responses
\* What a provider does with one request: it fails (the client call raises)
\* or it replies.  usage is None when the reply carries no usage report; an
\* OpenAI-style usage object has reasoning_tokens = None when it lacks that
\* attribute.
Failure == [ok |-> FALSE, usage |-> None, text |-> ""]
Reply(usage, text) == [ok |-> TRUE, usage |-> usage, text |-> text]

Texts == {"", "hi"}

OpenAIUsages ==
    {[prompt_tokens |-> MaxTokens, completion_tokens |-> 2 * MaxTokens,
      total_tokens |-> 3 * MaxTokens, reasoning_tokens |-> r] :
        r \in {None, Some(0), Some(MaxTokens)}}

AnthropicUsages == {[input_tokens |-> MaxTokens, output_tokens |-> 2 * MaxTokens]}

Outcomes(provider) ==
    {Failure} \cup
    {Reply(u, t) :
        u \in {None} \cup
              (IF provider \in OpenAIStyle THEN {Some(x) : x \in OpenAIUsages}
               ELSE IF provider = "anthropic" THEN {Some(x) : x \in AnthropicUsages}
               ELSE {}),
        t \in Texts}

\* ---------------------------------------------------------------- query_llm
\* time.time() - start_time: the wall clock is not modelled.
Elapsed == "elapsed"

\* Lines 148-160: the model used when the caller gave none.
DefaultModel(model, provider, environ) ==
    IF model # None THEN model
    ELSE CASE provider = "openai" -> Some(Str_gpt4o)
           [] provider = "azure" ->
                IF environ.AZURE_OPENAI_MODEL_DEPLOYMENT # None
                THEN environ.AZURE_OPENAI_MODEL_DEPLOYMENT
                ELSE Some(Str_gpt4oms)
           [] provider = "deepseek" -> Some(Str_deepseek)
           [] provider = "anthropic" -> Some(Str_claude)
           [] provider = "gemini" -> Some(Str_geminipro)
           [] provider = "local" -> Some(Str_qwen)
           [] OTHER -> None

\* Lines 182-192: the keyword arguments of chat.completions.create.
ChatKwargs(model) ==
    IF model = Str_o1
    THEN [model |-> model, temperature |-> None, reasoning_effort |-> Some("low")]
    ELSE [model |-> model, temperature |-> Some(7), reasoning_effort |-> None]

\* Lines 246-250: the keyword arguments of messages.create.
MessagesKwargs(model) ==
    [model |-> model, temperature |-> None, reasoning_effort |-> None]

\* Line 281: client.GenerativeModel(model).
GenerativeModel(model) ==
    [model |-> model, temperature |-> None, reasoning_effort |-> None]

\* The client call with one retry after a failure.
IssueRequest_Retry(outcome) ==
    [requests |-> IF outcome.ok THEN 1 ELSE 2,
     reply |-> IF outcome.ok THEN Returned(outcome) ELSE Raised]

\* Lines 194, 246, 282: the one blocking client call.  requests counts the
\* provider requests issued; reply is the response object or the exception.
IssueRequest(outcome) ==
    [requests |-> 1, reply |-> IF outcome.ok THEN Returned(outcome) ELSE Raised]

\* Line 202: model.lower().startswith("o")
HasReasoning(model) == StartsWith(Lower(model), <<"o">>)

\* Lines 198-203: the usage record of an OpenAI-style response.
OpenAITokenUsage(response, model) ==
    IF response.usage = None THEN Raised
    ELSE LET u == response.usage[1] IN
         IF HasReasoning(model)
         THEN IF u.reasoning_tokens = None THEN Raised
              ELSE TokenUsage(u.prompt_tokens, u.completion_tokens,
                              u.total_tokens, u.reasoning_tokens)
         ELSE TokenUsage(u.prompt_tokens, u.completion_tokens,
                         u.total_tokens, None)

\* The cost with the reasoning tokens billed on top of the completion tokens.
OpenAICost_AddsReasoning(token_usage, model) ==
    calculate_openai_cost(
        token_usage.prompt_tokens,
        token_usage.completion_tokens +
            (IF token_usage.reasoning_tokens = None THEN 0
             ELSE token_usage.reasoning_tokens[1]),
        model)

\* Lines 206-210
OpenAICost(token_usage, model) ==
    calculate_openai_cost(token_usage.prompt_tokens,
                          token_usage.completion_tokens, model)

\* The request record with the provider name hard-coded.
OpenAIRecord_Hardcoded(response, token_usage, cost, thinking_time, provider, model) ==
    APIResponse(response.text, token_usage, cost, thinking_time, "openai", model)

\* Lines 213-220
OpenAIRecord(response, token_usage, cost, thinking_time, provider, model) ==
    APIResponse(response.text, token_usage, cost, thinking_time, provider, model)

\* Lines 254-258: the usage record of an Anthropic response.
AnthropicTokenUsage(response) ==
    IF response.usage = None THEN Raised
    ELSE LET u == response.usage[1] IN
         TokenUsage(u.input_tokens, u.output_tokens,
                    u.input_tokens + u.output_tokens, None)

\* Lines 261-265
AnthropicCost(token_usage, model) ==
    calculate_claude_cost(token_usage.prompt_tokens,
                          token_usage.completion_tokens, model)

\* Lines 268-275
AnthropicRecord(response, token_usage, cost, thinking_time, provider, model) ==
    APIResponse(response.text, token_usage, cost, thinking_time, provider, model)

\* Tracking that puts the new record in front.
TrackRequest_Prepend(records, api_response) == <<api_response>> \o records

\* Lines 221 and 276: get_token_tracker().track_request(api_response)
TrackRequest(records, api_response) == track_request(records, api_response)

\* What one run of the try block leaves behind.
Run(result, records, requests, request, response) ==
    [result |-> result, ledger |-> records, requests |-> requests,
     request |-> request, response |-> response]

\* An exception handler that re-raises.
OnException_Reraise(records, requests, request, response) ==
    Run(Raised, records, requests, request, response)

\* Lines 285-287: any exception of the try block is reported on stderr and
\* None is returned; the ledger is whatever it was when the exception rose.
OnException(records, requests, request, response) ==
    Run(Returned(None), records, requests, request, response)

\* Lines 164-223
OpenAIBranch(records, model, provider, outcome) ==
    LET kwargs == ChatKwargs(model)
        sent == IssueRequest(outcome)
    IN  IF sent.reply.raised
        THEN OnException(records, sent.requests, Some(kwargs), None)
        ELSE
        LET response == sent.reply.value
            usage == OpenAITokenUsage(response, model)
        IN  IF usage.raised
            THEN OnException(records, sent.requests, Some(kwargs), Some(response))
            ELSE
            LET cost == OpenAICost(usage.value, model)
                rec == OpenAIRecord(response, usage.value, cost, Elapsed, provider, model)
            IN  IF rec.raised
                THEN OnException(records, sent.requests, Some(kwargs), Some(response))
                ELSE Run(Returned(Some(response.text)),
                         TrackRequest(records, rec.value),
                         sent.requests, Some(kwargs), Some(response))

\* Lines 225-278
AnthropicBranch(records, model, provider, outcome) ==
    LET kwargs == MessagesKwargs(model)
        sent == IssueRequest(outcome)
    IN  IF sent.reply.raised
        THEN OnException(records, sent.requests, Some(kwargs), None)
        ELSE
        LET response == sent.reply.value
            usage == AnthropicTokenUsage(response)
        IN  IF usage.raised
            THEN OnException(records, sent.requests, Some(kwargs), Some(response))
            ELSE
            LET cost == AnthropicCost(usage.value, model)
                rec == AnthropicRecord(response, usage.value, cost, Elapsed, provider, model)
            IN  IF rec.raised
                THEN OnException(records, sent.requests, Some(kwargs), Some(response))
                ELSE Run(Returned(Some(response.text)),
                         TrackRequest(records, rec.value),
                         sent.requests, Some(kwargs), Some(response))

\* Lines 280-283
GeminiBranch(records, model, outcome) ==
    LET kwargs == GenerativeModel(model)
        sent == IssueRequest(outcome)
    IN  IF sent.reply.raised
        THEN OnException(records, sent.requests, Some(kwargs), None)
        ELSE Run(Returned(Some(sent.reply.value.text)), records,
                 sent.requests, Some(kwargs), Some(sent.reply.value))

\* Lines 146-287: the try block, entered with a client in hand.  A provider
\* that matches no branch falls off the end of the function: None.
TryBlock(records, model, provider, environ, outcome) ==
    LET m == DefaultModel(model, provider, environ) IN
    IF provider \in OpenAIStyle THEN OpenAIBranch(records, m[1], provider, outcome)
    ELSE IF provider = "anthropic" THEN AnthropicBranch(records, m[1], provider, outcome)
    ELSE IF provider = "gemini" THEN GeminiBranch(records, m[1], outcome)
    ELSE Run(Returned(None), records, 0, None, None)

\* Lines 117-287.  client is None or the client the caller supplies; a
\* ValueError of create_llm_client (line 144) is outside the try block and
\* reaches the caller.
query_llm(records, client, model, provider, environ, outcome) ==
    LET made == IF client = None THEN create_llm_client(provider, environ)
                ELSE Returned(client[1])
    IN  IF made.raised THEN Run(Raised, records, 0, None, None)
        ELSE TryBlock(records, model, provider, environ, outcome)

\* -------------------------------------------------------------------- main
FailureMessage == "Failed to get response from LLM"

\* Lines 297-307: the CLI's own default model (`not args.model`).
CliModel(model, provider, environ) ==
    IF ~(model = None \/ model[1] = <<>>) THEN model
    ELSE CASE provider = "openai" -> Some(Str_gpt4o)
           [] provider = "deepseek" -> Some(Str_deepseek)
           [] provider = "anthropic" -> Some(Str_claude)
           [] provider = "gemini" -> Some(Str_geminiflash)
           [] provider = "azure" ->
                IF environ.AZURE_OPENAI_MODEL_DEPLOYMENT # None
                THEN environ.AZURE_OPENAI_MODEL_DEPLOYMENT
                ELSE Some(Str_gpt4oms)
           [] OTHER -> model

\* Lines 311-314: `if response:` prints the response, else the message.
Truthy(response) == response # None /\ response[1] # ""

PrintResult(response) ==
    IF Truthy(response) THEN response[1] ELSE FailureMessage

\* Lines 309-314.  stdout is None when main ended in an exception.
main(records, model, provider, environ, outcome) ==
    LET made == create_llm_client(provider, environ) IN
    IF made.raised
    THEN [run |-> Run(Raised, records, 0, None, None), stdout |-> None, done |-> FALSE]
    ELSE LET run == query_llm(records, Some(made.value),
                              CliModel(model, provider, environ),
                              provider, environ, outcome)
         IN  [run |-> run, stdout |-> Some(PrintResult(run.result.value)), done |-> TRUE]

\* ------------------------------------------------------------------- state
VARIABLES
    env,        \* os.environ as load_environment left it
    ledger,     \* the token tracker's records, in append order
    calls,      \* number of invocations so far
    call,       \* the last invocation: entry point and arguments
    before,     \* the ledger when the last invocation began
    requests,   \* provider requests issued by the last invocation
    request,    \* the keyword arguments of its request, None if none was sent
    response,   \* the provider's response object, None if none was obtained
    result,     \* what query_llm returned or raised
    stdout,     \* what main printed, None if it printed nothing
    done        \* main ran to normal completion

vars == <<env, ledger, calls, call, before, requests, request, response, result, stdout, done>>

ModelArgs == {None, Some(Str_o1), Some(Str_O3)}

NoCall == [entry |-> "none", provider |-> "none", model |-> None, client |-> None]

Init ==
    /\ env \in EnvChoices
    /\ ledger = <<>>
    /\ calls = 0
    /\ call = NoCall
    /\ before = <<>>
    /\ requests = 0
    /\ request = None
    /\ response = None
    /\ result = Returned(None)
    /\ stdout = None
    /\ done = FALSE

Observe(run) ==
    /\ ledger' = run.ledger
    /\ before' = ledger
    /\ requests' = run.requests
    /\ request' = run.request
    /\ response' = run.response
    /\ result' = run.result
    /\ calls' = calls + 1
    /\ UNCHANGED env

\* A library caller invokes query_llm, with or without a client of its own.
QueryLlm ==
    /\ calls < MaxCalls
    /\ \E provider \in Providers, model \in ModelArgs :
       \E client \in {None, Some(ClientClass(provider))}, outcome \in Outcomes(provider) :
          /\ call' = [entry |-> "query_llm", provider |-> provider,
                      model |-> model, client |-> client]
          /\ Observe(query_llm(ledger, client, model, provider, env, outcome))
          /\ stdout' = None
          /\ done' = FALSE

\* The command line entry point runs once.
Main ==
    /\ calls < MaxCalls
    /\ \E provider \in CliProviders, model \in ModelArgs :
       \E outcome \in Outcomes(provider) :
          LET m == main(ledger, model, provider, env, outcome) IN
          /\ call' = [entry |-> "main", provider |-> provider,
                      model |-> model, client |-> None]
          /\ Observe(m.run)
          /\ stdout' = m.stdout
          /\ done' = m.done

\* A process that uses the module as a library.
Next == QueryLlm

Spec == Init /\ [][Next]_vars

\* A process started from the command line.
NextCli == Main

SpecCli == Init /\ [][NextCli]_vars

TypeOK ==
    /\ calls \in 0..MaxCalls
    /\ Len(ledger) <= calls
    /\ requests \in 0..1

\* ------------------------------------------------------------ properties
Tracked == OpenAIStyle \cup {"anthropic"}

\* The last invocation obtained a response from the provider.
Obtained == response # None

\* The last invocation's request failed: it was issued and the client raised.
RequestFailed == requests >= 1 /\ response = None

\* The model name the last invocation sends: the caller's, or the default
\* of the provider.
ExpectedModel ==
    IF call.model # None THEN call.model[1]
    ELSE CASE call.provider = "openai" -> Str_gpt4o
           [] call.provider = "azure" ->
                IF env = FullEnv THEN Str_deploy ELSE Str_gpt4oms
           [] call.provider = "deepseek" -> Str_deepseek
           [] call.provider = "anthropic" -> Str_claude
           [] call.provider = "local" -> Str_qwen
           [] OTHER -> Str_geminipro

\* The response of the last invocation carries what every tracking step
\* needs: a usage report and, for a model whose lower-cased name starts
\* with "o", a reasoning_tokens count in it.
Trackable ==
    /\ Obtained
    /\ call.provider \in Tracked
    /\ response[1].usage # None
    /\ (call.provider \in OpenAIStyle /\ Lower(ExpectedModel)[1] = "o")
          => response[1].usage[1].reasoning_tokens # None

\* C1 as stated: the ledger holds exactly one record for each call that
\* obtained a response from an OpenAI-style provider or from anthropic, in
\* call order, and earlier records stay as they were.
C1_OneRecordPerResponse ==
    IF Obtained /\ call.provider \in Tracked
    THEN Len(ledger) = Len(before) + 1 /\ SubSeq(ledger, 1, Len(before)) = before
    ELSE ledger = before

\* C1 amended: a call appends exactly one record, at the end of the ledger,
\* when it obtained a response from an OpenAI-style provider or anthropic
\* whose tracking steps all completed; every other call leaves the ledger
\* as it was.  Earlier records are never removed, changed or reordered.
C1_AppendOnly ==
    IF Trackable
    THEN /\ Len(ledger) = Len(before) + 1
         /\ SubSeq(ledger, 1, Len(before)) = before
         /\ ledger[Len(ledger)].content = response[1].text
         /\ ledger[Len(ledger)].provider = call.provider
    ELSE ledger = before

C1_Witness ==
    /\ Len(ledger) = 2
    /\ Trackable
    /\ before = <<ledger[1]>>
    /\ ledger[1] # ledger[2]

\* C2: when the provider request fails, query_llm returns None instead of
\* raising and the ledger is what it was before the call.
C2_FailedRequest ==
    (call.entry = "query_llm" /\ RequestFailed)
        => (result = Returned(None) /\ ledger = before)

C2_Witness ==
    /\ call.entry = "query_llm"
    /\ RequestFailed
    /\ Len(before) = 1
    /\ result = Returned(None)

\* C3: a response without a usage report, from any provider, still has its
\* text returned to the caller and adds nothing to the ledger.
C3_NoUsage ==
    (call.entry = "query_llm" /\ Obtained /\ response[1].usage = None)
        => (result = Returned(Some(response[1].text)) /\ ledger = before)

\* C4: whenever the provider returned a response, query_llm returns its
\* text, whether or not the tracking steps succeeded.
C4_TrackingNeverAborts ==
    (call.entry = "query_llm" /\ Obtained)
        => result = Returned(Some(response[1].text))

\* The selected provider is unsupported or its credential is missing.
ConfigError ==
    /\ call.entry = "query_llm"
    /\ \/ call.provider \notin CliProviders
       \/ /\ CredentialOf(call.provider, env) # None
          /\ Falsy(CredentialOf(call.provider, env)[1])

C6_CliPrints ==
    (call.entry = "main" /\ done)
        => stdout = IF Obtained THEN Some(response[1].text)
                    ELSE Some(FailureMessage)

\* C7: an invocation issues at most one provider request: a failed request
\* is not issued again, and a response is the result of a single request.
C7_AtMostOneRequest ==
    /\ requests <= 1
    /\ RequestFailed => requests = 1
    /\ Obtained => requests = 1

C7_Witness ==
    /\ call.entry = "query_llm"
    /\ requests = 1
    /\ response = None
    /\ request # None
    /\ calls = 2

\* The records of OpenAI-style calls.
OpenAIRecords == {i \in 1..Len(ledger) : ledger[i].provider \in OpenAIStyle}

\* C8: the recorded cost of an OpenAI-style call depends only on
\* prompt_tokens, completion_tokens and the model: records that differ in
\* reasoning_tokens alone cost the same, all completion tokens being billed
\* at the completion rate.
C8_ReasoningNotBilledTwice ==
    /\ \A i \in OpenAIRecords, j \in OpenAIRecords :
          ( /\ ledger[i].model = ledger[j].model
            /\ ledger[i].token_usage.prompt_tokens = ledger[j].token_usage.prompt_tokens
            /\ ledger[i].token_usage.completion_tokens = ledger[j].token_usage.completion_tokens )
          => ledger[i].cost = ledger[j].cost
    /\ \A i \in OpenAIRecords :
          ledger[i].cost =
              ledger[i].token_usage.prompt_tokens * OpenAIPrice(ledger[i].model)[1]
              + ledger[i].token_usage.completion_tokens * OpenAIPrice(ledger[i].model)[2]

C8_Witness ==
    /\ Len(ledger) = 2
    /\ OpenAIRecords = {1, 2}
    /\ ledger[1].model = ledger[2].model
    /\ ledger[1].token_usage.reasoning_tokens # None
    /\ ledger[2].token_usage.reasoning_tokens # None
    /\ ledger[1].token_usage.reasoning_tokens # ledger[2].token_usage.reasoning_tokens
    /\ ledger[1].token_usage.completion_tokens = ledger[2].token_usage.completion_tokens
    /\ ledger[1].cost = ledger[2].cost

\* C9: a record carries a reasoning_tokens count only when the model is
\* o1; for every other model it is None.
C9_ReasoningOnlyO1 ==
    \A i \in 1..Len(ledger) :
        ledger[i].token_usage.reasoning_tokens # None => ledger[i].model = Str_o1

\* C10: a record carries the provider the caller passed and the model sent
\* in the request, which is the caller's model or the provider's default;
\* no record is of provider gemini.
C10_RecordNamesProviderAndModel ==
    /\ \A i \in 1..Len(ledger) : ledger[i].provider \in Tracked
    /\ ledger # before =>
          /\ request # None
          /\ ledger[Len(ledger)].provider = call.provider
          /\ ledger[Len(ledger)].model = request[1].model
          /\ ledger[Len(ledger)].model = ExpectedModel

C10_Witness ==
    /\ Len(ledger) = 2
    /\ ledger # before
    /\ call.model = None
    /\ call.provider = "azure"
    /\ ledger[1].provider = "anthropic"
    /\ ledger[2].model = ExpectedModel

====
